---- MODULE Spec2Model ----
(***************************************************************************)
(* Model of keita546/allo_list_matching.                                   *)
(*                                                                         *)
(* Part I  : the matcher of src/index検索対応版週次マスタ更新処理.py        *)
(*           (load/cleanse/preprocess of the OLD master, find_best_match). *)
(* Part II : the weekly ledger update of                                   *)
(*           src/最新版_カラム正規化なし統合スクリプト.py                    *)
(*           (merge_and_deduplicate).                                      *)
(* Part III: main of the same script, run after run                        *)
(*           (load, remove_specific_source_data, metadata, merge, save).   *)
(*                                                                         *)
(* Cell values are text, as the loaders deliver them.  A missing cell      *)
(* (NaN / pd.NA) is the value NA.  Result texts that are Japanese in the   *)
(* source are written as ASCII tokens; the original is in the comment      *)
(* next to each token.                                                     *)
(***************************************************************************)
EXTENDS Integers, Sequences, FiniteSets, TLC

VARIABLES
    pc,                \* position of the modelled run
    new_row,           \* the NEW record handed to find_best_match
    df_old,            \* OLD master after clean_initial_data (df_old_original)
    df_old_processed,  \* OLD master after preprocess_old_data
    looked_up,         \* find_best_match: the rows the tier lookup returned
    matching_old,      \* find_best_match: the rows that reach the ranking
    candidates,        \* find_best_match: deduplicated (name, jan) pairs
    result,            \* find_best_match: the returned dict (or the raise)
    ledger_file,       \* the persisted ledger (rows of the last written file)
    ledger_saved,      \* a ledger file has been written by an earlier run
    loaded_df,         \* last run: accumulated ledger as loaded
    existing_df,       \* last run: accumulated ledger handed to the merge
    existing_meta,     \* last run: existing_df has the データソース / 期間 columns
    kao_df,            \* last run: the 花王 feed rows handed to the merge
    planet_df,         \* last run: the プラネット feed rows handed to the merge
    matching_df,       \* last run: the matching rows handed to the merge
    final_df,          \* last run: what merge_and_deduplicate returned
    merged_again,      \* the merge applied once more to its own result
    files,             \* last run: the files the operator chose, and the load that failed
    new_input,         \* batch: the NEW master as load_data returned it
    old_input,         \* batch: the OLD master as load_data returned it
    df_new,            \* batch: the NEW master after clean_initial_data, with its index labels
    dropped,           \* batch: the drop counts clean_initial_data printed (NEW, OLD)
    results,           \* batch: the list of dicts the loop has appended
    final_join,        \* batch: NEW columns joined with the results (final_df)
    candidates_list    \* batch: what create_candidate_sheet_data returned

matchVars  == <<new_row, df_old, df_old_processed, looked_up, matching_old,
                candidates, result>>
ledgerVars == <<ledger_file, ledger_saved, loaded_df, existing_df, existing_meta, kao_df,
                planet_df, matching_df, final_df, merged_again, files>>
batchVars  == <<new_input, old_input, df_new, dropped, results, final_join, candidates_list>>
vars == <<pc, matchVars, ledgerVars, batchVars>>

-----------------------------------------------------------------------------
(* Generic helpers                                                         *)

NA == "<nan>"         \* a missing cell as read from the file: NaN
Int7 == "7 (int64)"       \* the code 7 in a numeric column without missing cell
Float7 == "7.0 (float64)" \* the code 7 in a numeric column with a missing cell
PdNA == "<pd.NA>"     \* pd.NA: the cells of a column that load_data added
None == "<None>"      \* Python None

isna(v) == v \in {NA, PdNA}
notna(v) == ~isna(v)

Range(s) == {s[i] : i \in 1..Len(s)}

\* All sequences over S of length 0..n.
SeqUpTo(S, n) == UNION {[1..k -> S] : k \in 0..n}

-----------------------------------------------------------------------------
(* Part I: value conversions of the matcher                                *)

\* str.strip(): the padded texts of the model and what is left of them.
strip(s) ==
    CASE s = "B2 " -> "B2"
      [] s = " M1" -> "M1"
      [] s = " "   -> ""
      [] s = " nan"  -> "nan"
      [] s = " <NA>" -> "<NA>"
      [] OTHER     -> s

\* Series.astype(str) and str(): NaN becomes the text 'nan', pd.NA the text
\* '<NA>', an integer 7 the text '7', a float 7.0 the text '7.0'; a text
\* cell is kept.
astype_str(v) ==
    CASE v = NA     -> "nan"
      [] v = PdNA   -> "<NA>"
      [] v = Int7   -> "7"
      [] v = Float7 -> "7.0"
      [] OTHER      -> v

\* find_best_match, lines 231-239: str(x).strip() if notna else None, and
\* the text 'nan' is turned into None.
new_key(v) ==
    IF notna(v)
    THEN (LET s == strip(astype_str(v)) IN IF s = "nan" THEN None ELSE s)
    ELSE None

\* Python truthiness of a str-or-None value.
truthy(s) == s # None /\ s # ""

\* float(text): the numeric texts of the model.  Any other text raises
\* ValueError in float() and is coerced to NaN by pd.to_numeric.
FloatOf ==
    ("0" :> 0) @@ ("90" :> 90) @@ ("100" :> 100) @@ ("120" :> 120) @@
    ("150" :> 150) @@ ("160" :> 160) @@ ("-100" :> -100)

parses(t) == t \in DOMAIN FloatOf

\* A float cell: nan, or the value v.
FNaN == [nan |-> TRUE, v |-> 0]
FVal(n) == [nan |-> FALSE, v |-> n]

\* pd.to_numeric(col, errors='coerce')
to_numeric(t) == IF notna(t) /\ parses(t) THEN FVal(FloatOf[t]) ELSE FNaN

\* get_weight_range: (w * 0.8, w * 1.2), or (None, None) when float() fails.
\* The two bounds are kept in tenths (8*w, 12*w) so that they stay integers;
\* an OLD weight v is compared as 10*v.
get_weight_range(weight) ==
    IF parses(weight)
    THEN [none |-> FALSE, min_w |-> 8 * FloatOf[weight], max_w |-> 12 * FloatOf[weight]]
    ELSE [none |-> TRUE, min_w |-> 0, max_w |-> 0]

\* `if min_w and max_w`: both are not None and not 0.0.
range_truthy(rg) == ~rg.none /\ rg.min_w # 0 /\ rg.max_w # 0

\* matching_old['目付_旧_float'] >= min_w & <= max_w ; NaN compares False.
in_weight_range(wf, rg) ==
    /\ ~wf.nan
    /\ 10 * wf.v >= rg.min_w
    /\ 10 * wf.v <= rg.max_w

\* The characters of the product names of the model.
Chars(name) ==
    CASE name = "ab"  -> <<"a", "b">>
      [] name = "abc" -> <<"a", "b", "c">>
      [] name = "bc"  -> <<"b", "c">>
      [] OTHER        -> <<>>

RECURSIVE LCS(_, _)
\* Number of matching characters of two names (longest common subsequence).
LCS(s, t) ==
    IF s = <<>> \/ t = <<>> THEN 0
    ELSE IF Head(s) = Head(t) THEN 1 + LCS(Tail(s), Tail(t))
    ELSE LET a == LCS(Tail(s), t)
             b == LCS(s, Tail(t))
         IN IF a >= b THEN a ELSE b

\* fuzz.ratio(s1, s2): round(100 * 2*M / T), an integer 0..100.
fuzz_ratio(s1, s2) ==
    LET a == Chars(s1)
        b == Chars(s2)
        T == Len(a) + Len(b)
    IN IF T = 0 THEN 0 ELSE (400 * LCS(a, b) + T) \div (2 * T)

\* calculate_similarity, in percent: 0 when either name is missing.
calculate_similarity(s1, s2) ==
    IF isna(s1) \/ isna(s2) THEN 0 ELSE fuzz_ratio(s1, s2)

-----------------------------------------------------------------------------
(* Part I: the OLD master                                                  *)

\* Variant: a row is dropped as soon as one of the three keys is missing.
clean_initial_data_any(df) ==
    SelectSeq(df, LAMBDA r : ~(isna(r.maker) \/ isna(r.brand) \/ isna(r.type)))

\* clean_initial_data: drop the rows whose maker name, brand code and type
\* code are all missing; the other rows keep their order.
clean_initial_data(df) ==
    SelectSeq(df, LAMBDA r : ~(isna(r.maker) /\ isna(r.brand) /\ isna(r.type)))

\* preprocess_old_data, one row: the three key columns become stripped text
\* and 目付_旧_float is added.
preprocess_row(r) ==
    [maker  |-> strip(astype_str(r.maker)),
     brand  |-> strip(astype_str(r.brand)),
     type   |-> strip(astype_str(r.type)),
     weight |-> r.weight,
     name   |-> r.name,
     jan    |-> r.jan,
     weight_float |-> to_numeric(r.weight)]

\* preprocess_old_data: df_processed; the two indexed frames hold the same
\* rows in the same order and are modelled by the lookups below.
preprocess_old_data(df) == [i \in 1..Len(df) |-> preprocess_row(df[i])]

\* df_old_processed[df_old_processed['ブランドコード_旧'] == new_brand]: the
\* linear scan of the version without index.
RECURSIVE scan_brand(_, _)
scan_brand(processed, key) ==
    IF processed = <<>> THEN <<>>
    ELSE IF Head(processed).brand = key
         THEN <<Head(processed)>> \o scan_brand(Tail(processed), key)
         ELSE scan_brand(Tail(processed), key)

\* Variant: a brand code the index does not hold selects the whole frame.
loc_brand_whole_frame(processed, key) ==
    LET rows == SelectSeq(processed, LAMBDA r : r.brand = key)
    IN [KeyError |-> FALSE, rows |-> IF rows = <<>> THEN processed ELSE rows]

\* df_old_brands_indexed.loc[key]: the rows of that brand code in frame
\* order; KeyError when the index holds no such key.
loc_brand(processed, key) ==
    LET rows == SelectSeq(processed, LAMBDA r : r.brand = key)
    IN [KeyError |-> rows = <<>>, rows |-> rows]

\* Variant: the composite lookup compares the maker name only.
loc_multi_maker_only(processed, maker, type) ==
    LET rows == SelectSeq(processed, LAMBDA r : r.maker = maker)
    IN [KeyError |-> rows = <<>>, rows |-> rows]

\* df_old_multi_indexed.loc[(maker, type)]
loc_multi(processed, maker, type) ==
    LET rows == SelectSeq(processed, LAMBDA r : r.maker = maker /\ r.type = type)
    IN [KeyError |-> rows = <<>>, rows |-> rows]

\* try: ....loc[key].copy()  except KeyError: df_old_processed.iloc[0:0]
lookup_or_empty(found) == IF found.KeyError THEN <<>> ELSE found.rows

-----------------------------------------------------------------------------
(* Part I: find_best_match                                                 *)

NoRow == [maker |-> NA, brand |-> NA, type |-> NA, weight |-> NA,
          name |-> NA, jan |-> NA]

\* The dicts find_best_match returns without a winner.
\*   outcome  = 照合結果, score = 最高類似度 (percent), judgment = 判定,
\*   candidate = 候補 (the winner's name), skip = スキップ理由,
\*   has = 候補あり, old = the OLD columns copied from best_old_row,
\*   pattern = パターン ("" when the dict has no such key).
NoCandidate(outcome, skip) ==
    [raised |-> "", outcome |-> outcome, score |-> 0, judgment |-> "x",
     candidate |-> "", skip |-> skip, has |-> FALSE, old |-> NoRow,
     pattern |-> ""]

\* An exception leaving find_best_match.
Raised(exc) ==
    [raised |-> exc, outcome |-> "", score |-> 0, judgment |-> "",
     candidate |-> "", skip |-> "", has |-> FALSE, old |-> NoRow,
     pattern |-> ""]

\* 目付チェック (lines 271-289, and again 316-333): either an early return
\* (ret # "") or the rows that go on, with the pattern name and skip reasons.
weight_check(matching, new_weight, only_pattern, weight_pattern) ==
    IF notna(new_weight)
    THEN LET rg == get_weight_range(new_weight)
         IN IF range_truthy(rg)
            THEN LET weight_filtered ==
                         SelectSeq(matching, LAMBDA r : in_weight_range(r.weight_float, rg))
                 IN IF weight_filtered = <<>>
                    THEN [ret |-> "no-candidate:weight-out-of-range",
                          rows |-> <<>>, pattern |-> only_pattern, skip |-> ""]
                    ELSE [ret |-> "", rows |-> weight_filtered,
                          pattern |-> weight_pattern, skip |-> ""]
            ELSE [ret |-> "", rows |-> matching, pattern |-> only_pattern, skip |-> ""]
    ELSE [ret |-> "", rows |-> matching, pattern |-> only_pattern,
          skip |-> "weight-skipped"]

RECURSIVE drop_duplicates(_, _)
\* DataFrame.drop_duplicates(): the first occurrence of each row is kept.
drop_duplicates(rows, seen) ==
    IF rows = <<>> THEN <<>>
    ELSE IF Head(rows) \in seen THEN drop_duplicates(Tail(rows), seen)
    ELSE <<Head(rows)>> \o drop_duplicates(Tail(rows), seen \cup {Head(rows)})

\* matching_old[['商品名称（カナ）_旧', 'JANコード_旧']].drop_duplicates()
name_jan_pairs(rows) ==
    drop_duplicates([i \in 1..Len(rows) |-> [name |-> rows[i].name, jan |-> rows[i].jan]], {})

RECURSIVE insert_desc_unstable(_, _)
\* Variant: x goes in front of the elements of equal score (an unstable sort).
insert_desc_unstable(sorted, x) ==
    IF sorted = <<>> THEN <<x>>
    ELSE IF Head(sorted).score > x.score
         THEN <<Head(sorted)>> \o insert_desc_unstable(Tail(sorted), x)
         ELSE <<x>> \o sorted

RECURSIVE insert_desc(_, _)
\* One step of the stable descending sort: x goes behind every element whose
\* score is not smaller.
insert_desc(sorted, x) ==
    IF sorted = <<>> THEN <<x>>
    ELSE IF Head(sorted).score >= x.score
         THEN <<Head(sorted)>> \o insert_desc(Tail(sorted), x)
         ELSE <<x>> \o sorted

RECURSIVE sort_desc(_, _)
\* list.sort(key=score, reverse=True): stable, equal scores keep their order.
sort_desc(todo, done) ==
    IF todo = <<>> THEN done
    ELSE sort_desc(Tail(todo), insert_desc(done, Head(todo)))

\* Variant: a score of exactly 80 percent is not high.
judge_above(score) ==
    IF score > 80 THEN [outcome |-> "high", judgment |-> "o"]
    ELSE [outcome |-> "low", judgment |-> "x"]

\* Lines 364-370: 照合結果 and 判定 from the best score (in percent).
\*   "high" = 高類似度候補あり (80%以上), "low" = 低類似度 (80%未満・要手動確認),
\*   "o" = ○, "x" = ✕.
judge(score) ==
    IF score >= 80 THEN [outcome |-> "high", judgment |-> "o"]
    ELSE [outcome |-> "low", judgment |-> "x"]

\* Lines 344-391: rank the candidates and build the winner's dict.
rank_and_report(looked, matching, new_name, original, skip, pattern) ==
    LET cands == name_jan_pairs(matching)
        similarities ==
            sort_desc([i \in 1..Len(cands) |->
                         [score |-> calculate_similarity(new_name, cands[i].name),
                          name |-> cands[i].name, jan |-> cands[i].jan]], <<>>)
        best == similarities[1]
        \* df_old_original[df_old_original['JANコード_旧'] == best_jan]
        same_jan == SelectSeq(original, LAMBDA r : notna(r.jan) /\ notna(best.jan)
                                                   /\ r.jan = best.jan)
    IN IF cands = <<>>
       THEN [looked_up |-> looked, matching_old |-> matching, candidates |-> cands,
             result |-> NoCandidate("no-candidate:no-name", skip)]
       ELSE IF same_jan = <<>>
       THEN [looked_up |-> looked, matching_old |-> matching, candidates |-> cands,
             result |-> Raised("IndexError")]       \* .iloc[0] of an empty frame
       ELSE [looked_up |-> looked, matching_old |-> matching, candidates |-> cands,
             result |->
               [raised |-> "",
                outcome |-> judge(best.score).outcome,
                score |-> best.score,
                judgment |-> judge(best.score).judgment,
                candidate |-> best.name,
                skip |-> skip,
                has |-> TRUE,
                old |-> same_jan[1],
                pattern |-> pattern]]

\* An early return of find_best_match: nothing reaches the ranking.
early_return(looked, outcome) ==
    [looked_up |-> looked, matching_old |-> <<>>, candidates |-> <<>>,
     result |-> NoCandidate(outcome, "")]

\* Lines 263-289 / 308-333 and the ranking behind them, for the rows found
\* by one tier's lookup.
match_tier(matching, new_weight, new_name, original, mismatch, only_pattern, weight_pattern) ==
    IF matching = <<>> THEN early_return(matching, mismatch)
    ELSE LET wc == weight_check(matching, new_weight, only_pattern, weight_pattern)
         IN IF wc.ret # "" THEN early_return(matching, wc.ret)
            ELSE rank_and_report(matching, wc.rows, new_name, original, wc.skip, wc.pattern)

\* Variant: a brand code that finds nothing falls through to maker + type.
find_best_match_fallthrough(row, processed, original) ==
    LET new_maker_name == new_key(row.maker)
        new_brand      == new_key(row.brand)
        new_type       == new_key(row.type)
    IN IF truthy(new_brand) /\ ~loc_brand(processed, new_brand).KeyError
       THEN match_tier(lookup_or_empty(loc_brand(processed, new_brand)),
                       row.weight, row.name, original,
                       "no-candidate:brand-mismatch", "brand-only", "brand+weight")
       ELSE IF truthy(new_maker_name) /\ truthy(new_type)
       THEN match_tier(lookup_or_empty(loc_multi(processed, new_maker_name, new_type)),
                       row.weight, row.name, original,
                       "no-candidate:maker+type-mismatch",
                       "maker+type-only", "maker+type+weight")
       ELSE early_return(<<>>, "no-candidate:insufficient-key")

\* find_best_match(new_row, df_old_processed, <the two indexed frames>, df_old_original)
find_best_match(row, processed, original) ==
    LET new_maker_name == new_key(row.maker)
        new_brand      == new_key(row.brand)
        new_type       == new_key(row.type)
    IN IF truthy(new_brand)
       THEN match_tier(lookup_or_empty(loc_brand(processed, new_brand)),
                       row.weight, row.name, original,
                       "no-candidate:brand-mismatch", "brand-only", "brand+weight")
       ELSE IF truthy(new_maker_name) /\ truthy(new_type)
       THEN match_tier(lookup_or_empty(loc_multi(processed, new_maker_name, new_type)),
                       row.weight, row.name, original,
                       "no-candidate:maker+type-mismatch",
                       "maker+type-only", "maker+type+weight")
       ELSE early_return(<<>>, "no-candidate:insufficient-key")

-----------------------------------------------------------------------------
(* Part I: the inputs of the matcher runs                                  *)

\* Largest number of OLD records in a run of the model.
MaxOld == 2

Row(maker, brand, type, weight, name, jan) ==
    [maker |-> maker, brand |-> brand, type |-> type, weight |-> weight,
     name |-> name, jan |-> jan]

\* OLD records that differ in their keys.
OldByKey ==
    {Row(m, b, t, "120", "ab", "J1") :
        m \in {NA, "M1"}, b \in {NA, "B1", "B2 "}, t \in {NA, "T1"}}

\* NEW records that differ in their keys.
NewByKey ==
    {Row(m, b, t, w, "ab", "N1") :
        m \in {NA, " M1"}, b \in {NA, "B1", "B2", " "}, t \in {NA, "T1"},
        w \in {NA, "100", "160"}}

\* OLD records of one maker and type that differ in brand, weight, name, JAN.
\* Two more have no name and no JAN code.
OldByPayload ==
    {Row("M1", b, "T1", w, n, j) :
        b \in {"B1", "B2 "}, w \in {NA, "120"}, n \in {"ab", "abc"},
        j \in {"J1", "J2"}}
    \cup {Row("M1", "B1", "T1", "120", NA, "J2"),
          Row("M1", "B1", "T1", "120", "ab", NA)}

\* NEW records of that maker and type, with and without a brand code.
NewByPayload ==
    {Row("M1", b, "T1", w, n, "N1") :
        b \in {NA, "B1"},
        w \in {NA, "0", "90", "100", "150", "160", "-100", "x"},
        n \in {NA, "ab", "bc"}}

MatchInputs ==
    (SeqUpTo(OldByKey, MaxOld) \X NewByKey)
        \cup (SeqUpTo(OldByPayload, MaxOld) \X NewByPayload)

NoResult == Raised("not-run")

BatchIdle ==
    /\ new_input = <<>>
    /\ old_input = <<>>
    /\ df_new = <<>>
    /\ dropped = <<0, 0>>
    /\ results = <<>>
    /\ final_join = <<>>
    /\ candidates_list = <<>>

\* No file has been chosen.
NoFiles ==
    [existing |-> "none", matching |-> {}, feed |-> {}, error |-> "",
     keep |-> [kao |-> {}, planet |-> {}]]

LedgerIdle ==
    /\ files = NoFiles
    /\ ledger_file = <<>>
    /\ ledger_saved = FALSE
    /\ loaded_df = <<>>
    /\ existing_df = <<>>
    /\ existing_meta = FALSE
    /\ kao_df = <<>>
    /\ planet_df = <<>>
    /\ matching_df = <<>>
    /\ final_df = <<>>
    /\ merged_again = <<>>

\* load_data of both masters has returned: df_old and new_row are as loaded.
InitMatch ==
    /\ pc = "loaded"
    /\ \E inp \in MatchInputs : df_old = inp[1] /\ new_row = inp[2]
    /\ df_old_processed = <<>>
    /\ looked_up = <<>>
    /\ matching_old = <<>>
    /\ candidates = <<>>
    /\ result = NoResult
    /\ LedgerIdle
    /\ BatchIdle

\* process_master_data, lines 144-153: cleanse both masters, preprocess OLD.
\* A NEW record without any key is dropped and never matched.
Prepare ==
    /\ pc = "loaded"
    /\ df_old' = clean_initial_data(df_old)
    /\ df_old_processed' = preprocess_old_data(clean_initial_data(df_old))
    /\ pc' = IF clean_initial_data(<<new_row>>) = <<>> THEN "dropped" ELSE "prepared"
    /\ UNCHANGED <<new_row, looked_up, matching_old, candidates, result, ledgerVars,
                   batchVars>>

\* process_master_data, lines 161-168: one pass of the loop.
Match ==
    /\ pc = "prepared"
    /\ LET r == find_best_match(new_row, df_old_processed, df_old)
       IN /\ looked_up' = r.looked_up
          /\ matching_old' = r.matching_old
          /\ candidates' = r.candidates
          /\ result' = r.result
    /\ pc' = "matched"
    /\ UNCHANGED <<new_row, df_old, df_old_processed, ledgerVars, batchVars>>

NextMatch == Prepare \/ Match

SpecMatch == InitMatch /\ [][NextMatch]_vars

\* OLD masters whose file has no brand code column, no maker name column or
\* no type code column: load_data adds the column with pd.NA in every row.
OldNoBrandColumn ==
    {Row(m, PdNA, t, "120", "ab", j) :
        m \in {NA, "M1"}, t \in {NA, "T1"}, j \in {"J1", "J2"}}

OldNoMakerColumn ==
    {Row(PdNA, b, t, "120", "ab", j) :
        b \in {NA, "B1"}, t \in {NA, "T1"}, j \in {"J1", "J2"}}

OldNoTypeColumn ==
    {Row(m, b, PdNA, "120", "ab", j) :
        m \in {NA, "M1"}, b \in {NA, "B1"}, j \in {"J1", "J2"}}

\* NEW records whose key cells hold texts that survive the loader's missing
\* value detection because of a leading blank.
NewByLiteral ==
    {Row(m, b, t, w, "ab", "N1") :
        m \in {"M1", " nan", " <NA>"}, b \in {NA, "B1", " nan", " <NA>"},
        t \in {"T1", " nan", " <NA>"}, w \in {NA, "100"}}

AbsentKeyInputs ==
    (SeqUpTo(OldByKey, MaxOld) \cup SeqUpTo(OldNoBrandColumn, MaxOld)
        \cup SeqUpTo(OldNoMakerColumn, MaxOld)
        \cup SeqUpTo(OldNoTypeColumn, MaxOld)) \X NewByLiteral

\* load_data of both masters has returned, for the masters above.
InitAbsentKey ==
    /\ pc = "loaded"
    /\ \E inp \in AbsentKeyInputs : df_old = inp[1] /\ new_row = inp[2]
    /\ df_old_processed = <<>>
    /\ looked_up = <<>>
    /\ matching_old = <<>>
    /\ candidates = <<>>
    /\ result = NoResult
    /\ LedgerIdle
    /\ BatchIdle

SpecAbsentKey == InitAbsentKey /\ [][NextMatch]_vars

\* OLD masters whose brand codes are numbers.  The reader gives the column
\* the type int64 when every row has a brand code and float64 when a row
\* has none.
OldIntBrand ==
    {Row("M1", Int7, "T1", w, n, j) :
        w \in {"120", "150"}, n \in {"ab", "abc"}, j \in {"J1", "J2"}}

OldFloatBrand ==
    {Row("M1", b, "T1", w, n, j) :
        b \in {Float7, NA}, w \in {"120", "150"}, n \in {"ab", "abc"},
        j \in {"J1", "J2"}}

\* NEW records of a master with numeric brand codes, from a column with and
\* without missing cells.
NewNumericBrand ==
    {Row("M1", b, "T1", w, "ab", "N1") :
        b \in {Int7, Float7, NA}, w \in {NA, "100", "160"}}

NumericKeyInputs ==
    (SeqUpTo(OldIntBrand, MaxOld) \cup SeqUpTo(OldFloatBrand, MaxOld))
        \X NewNumericBrand

\* load_data of both masters has returned, for the masters above.
InitNumericKey ==
    /\ pc = "loaded"
    /\ \E inp \in NumericKeyInputs : df_old = inp[1] /\ new_row = inp[2]
    /\ df_old_processed = <<>>
    /\ looked_up = <<>>
    /\ matching_old = <<>>
    /\ candidates = <<>>
    /\ result = NoResult
    /\ LedgerIdle
    /\ BatchIdle

SpecNumericKey == InitNumericKey /\ [][NextMatch]_vars

-----------------------------------------------------------------------------
(* Part I: properties of find_best_match                                   *)

\* A key of a record is present: the cell is not missing and not blank.
Present(v) == notna(v) /\ strip(v) # ""

\* The OLD record o carries the brand code of the NEW record n.
SameBrand(n, o) == Present(n.brand) /\ notna(o.brand) /\ strip(o.brand) = strip(n.brand)

\* The OLD record o carries the (maker name, type code) pair of n.
SameMakerType(n, o) ==
    /\ Present(n.maker) /\ notna(o.maker) /\ strip(o.maker) = strip(n.maker)
    /\ Present(n.type)  /\ notna(o.type)  /\ strip(o.type)  = strip(n.type)

\* The preprocessed rows of the OLD records at the positions that satisfy P,
\* in the order of the OLD input.
RowsWhere(P(_)) ==
    LET F[i \in 0..Len(df_old)] ==
            IF i = 0 THEN <<>>
            ELSE IF P(i) THEN Append(F[i - 1], df_old_processed[i]) ELSE F[i - 1]
    IN F[Len(df_old)]

MakerTypeOutcomes ==
    {"no-candidate:maker+type-mismatch", "no-candidate:insufficient-key"}

\* C1: a NEW record with a brand code gets its candidates only from the OLD
\* records of that brand code; when there is none the result is the
\* brand-mismatch outcome and the maker + type tier is not tried, also when
\* the record's (maker name, type code) pair matches an OLD record.
C1_BrandTierOnly ==
    (pc = "matched" /\ Present(new_row.brand)) =>
        /\ looked_up = RowsWhere(LAMBDA i : SameBrand(new_row, df_old[i]))
        /\ \A k \in 1..Len(matching_old) : matching_old[k] \in Range(looked_up)
        /\ \A c \in Range(candidates) :
              \E r \in Range(looked_up) : r.name = c.name /\ r.jan = c.jan
        /\ (\A i \in 1..Len(df_old) : ~SameBrand(new_row, df_old[i]))
              => result = NoCandidate("no-candidate:brand-mismatch", "")
        /\ result.outcome \notin MakerTypeOutcomes
        /\ result.pattern \notin {"maker+type-only", "maker+type+weight"}

\* C1 witness: brand code present and carried by no OLD record, the maker +
\* type pair carried by one, and the outcome is brand-mismatch.
C1_Witness ==
    /\ pc = "matched"
    /\ Present(new_row.brand)
    /\ \A i \in 1..Len(df_old) : ~SameBrand(new_row, df_old[i])
    /\ \E i \in 1..Len(df_old) : SameMakerType(new_row, df_old[i])
    /\ result.outcome = "no-candidate:brand-mismatch"

\* C2: a NEW record without a brand code: with maker name and type code both
\* present the lookup returns the OLD records of the same pair and an empty
\* lookup gives maker+type-mismatch; with either one absent the outcome is
\* insufficient-key.  Both are returned values, nothing is raised.
C2_MakerTypeTier ==
    (pc = "matched" /\ ~Present(new_row.brand)) =>
        IF Present(new_row.maker) /\ Present(new_row.type)
        THEN /\ looked_up = RowsWhere(LAMBDA i : SameMakerType(new_row, df_old[i]))
             /\ looked_up = <<>>
                  => result = NoCandidate("no-candidate:maker+type-mismatch", "")
             /\ looked_up # <<>>
                  => result.outcome \notin MakerTypeOutcomes \cup {"no-candidate:brand-mismatch"}
        ELSE /\ looked_up = <<>>
             /\ result = NoCandidate("no-candidate:insufficient-key", "")

\* C2 witness: no brand code, both other keys present, some OLD record has
\* the maker name but none has the pair.
C2_Witness ==
    /\ pc = "matched"
    /\ ~Present(new_row.brand)
    /\ Present(new_row.maker) /\ Present(new_row.type)
    /\ \E i \in 1..Len(df_old) :
          notna(df_old[i].maker) /\ strip(df_old[i].maker) = strip(new_row.maker)
    /\ result = NoCandidate("no-candidate:maker+type-mismatch", "")

\* The OLD weight of the preprocessed row r lies in [0.8 w, 1.2 w] for the
\* NEW weight text w (both bounds included).
InWindow(r, w) ==
    /\ notna(r.weight) /\ parses(r.weight)
    /\ 8 * FloatOf[w] <= 10 * FloatOf[r.weight]
    /\ 10 * FloatOf[r.weight] <= 12 * FloatOf[w]

\* C3: with a numeric NEW weight and a non-empty lookup, the rows that reach
\* the ranking are exactly the looked-up rows whose weight is in the window;
\* when none is, the outcome is weight-out-of-range and nothing is ranked.
C3_WeightWindow ==
    (pc = "matched" /\ notna(new_row.weight) /\ parses(new_row.weight)
        /\ looked_up # <<>>) =>
        LET inside == SelectSeq(looked_up, LAMBDA r : InWindow(r, new_row.weight))
        IN IF inside = <<>>
           THEN /\ result = NoCandidate("no-candidate:weight-out-of-range", "")
                /\ matching_old = <<>>
                /\ candidates = <<>>
           ELSE matching_old = inside

\* Position of the first row of rows that has the (name, jan) pair c.
FirstPos(rows, c) ==
    CHOOSE k \in 1..Len(rows) :
        /\ rows[k].name = c.name /\ rows[k].jan = c.jan
        /\ \A j \in 1..(k - 1) : ~(rows[j].name = c.name /\ rows[j].jan = c.jan)

\* The candidates are the distinct (name, jan) pairs of the rows that reach
\* the ranking, in the order of their first row, which is the OLD order.
CandidateOrder ==
    /\ matching_old = SelectSeq(df_old_processed, LAMBDA r : r \in Range(matching_old))
    /\ Range(candidates) =
          {[name |-> r.name, jan |-> r.jan] : r \in Range(matching_old)}
    /\ \A a, b \in 1..Len(candidates) :
          a < b => FirstPos(matching_old, candidates[a]) < FirstPos(matching_old, candidates[b])

Score(k) == calculate_similarity(new_row.name, candidates[k].name)

\* C4: the winner is the candidate of highest similarity among the distinct
\* (name, jan) candidates; among several of the highest score the first in
\* candidate order (the order of the OLD input) wins.
C4_WinnerIsFirstBest ==
    (pc = "matched" /\ result.has) =>
        /\ CandidateOrder
        /\ \E k \in 1..Len(candidates) :
              /\ result.candidate = candidates[k].name
              /\ result.old.jan = candidates[k].jan
              /\ result.score = Score(k)
              /\ \A j \in 1..Len(candidates) : Score(j) <= Score(k)
              /\ \A j \in 1..(k - 1) : Score(j) < Score(k)

\* C4 witness: two candidates share the highest score and the first one won.
C4_Witness ==
    /\ pc = "matched"
    /\ result.has
    /\ Len(candidates) = 2
    /\ Score(1) = Score(2)
    /\ Score(1) > 0
    /\ candidates[1].jan # candidates[2].jan
    /\ result.old.jan = candidates[1].jan

\* C11: find_best_match returns a result for every NEW record and every OLD
\* master, also when OLD records have no JAN code or share one; it raises
\* nothing.
C11_MatchNeverRaises ==
    pc = "matched" => result.raised = ""

\* C15: with the NEW weight absent and a non-empty lookup, all looked-up rows
\* go on to the ranking, the record gets a result with a winner, the result
\* carries the skip reason weight-skipped, and its pattern is the tier
\* without weight.
C15_AbsentWeightSkipsFilter ==
    (pc = "matched" /\ isna(new_row.weight) /\ looked_up # <<>>) =>
        /\ matching_old = looked_up
        /\ result.raised = ""
        /\ result.has
        /\ result.skip = "weight-skipped"
        /\ result.pattern = IF Present(new_row.brand) THEN "brand-only"
                            ELSE "maker+type-only"

\* C19: an OLD record without a brand code is never among the rows the
\* brand lookup returns (the lookup that runs when the NEW brand key is set), and an OLD record without a maker name or without
\* a type code is never among the rows the maker + type lookup returns,
\* whatever texts the keys of the NEW record hold.
BrandTierRan == truthy(new_key(new_row.brand))

C19_AbsentKeyNeverLiteral ==
    pc = "matched" =>
        \A i \in 1..Len(df_old) :
            /\ (BrandTierRan /\ isna(df_old[i].brand))
                  => df_old_processed[i] \notin Range(looked_up)
            /\ (~BrandTierRan /\ (isna(df_old[i].maker) \/ isna(df_old[i].type)))
                  => df_old_processed[i] \notin Range(looked_up)

\* The same for OLD masters whose missing cells were all read from the file.
C19_HoldsForCellsReadAsNaN ==
    (\A i \in 1..Len(df_old) :
        PdNA \notin {df_old[i].maker, df_old[i].brand, df_old[i].type})
    => C19_AbsentKeyNeverLiteral

\* C16: a result with a winner is high (高類似度候補あり, ○) exactly when the
\* winner's score is at least 0.8, a score of exactly 0.8 included, and low
\* (低類似度・要手動確認, ✕) otherwise.
C16_HighIffScoreAtLeast80 ==
    (pc = "matched" /\ result.has) =>
        /\ \E k \in 1..Len(candidates) : result.score = Score(k)
        /\ IF result.score >= 80
           THEN result.outcome = "high" /\ result.judgment = "o"
           ELSE result.outcome = "low" /\ result.judgment = "x"

\* C16 witness: the winner's score is exactly 0.8 and the result is high.
C16_Witness ==
    /\ pc = "matched"
    /\ result.has
    /\ result.score = 80
    /\ result.outcome = "high"
    /\ result.judgment = "o"

\* C17: with the NEW name absent and at least one row left after lookup and
\* weight filter, every candidate scores 0, the first candidate wins, and
\* the result is a low-similarity match, not a no-candidate outcome.
C17_AbsentNameFirstCandidateLow ==
    (pc = "matched" /\ isna(new_row.name) /\ matching_old # <<>>) =>
        /\ candidates # <<>>
        /\ \A k \in 1..Len(candidates) : Score(k) = 0
        /\ result.raised = ""
        /\ result.has
        /\ result.outcome = "low" /\ result.judgment = "x" /\ result.score = 0
        /\ result.candidate = candidates[1].name
        /\ result.old.jan = candidates[1].jan

-----------------------------------------------------------------------------
(* Part II: the ledger merge                                               *)
(*                                                                         *)
(* A ledger row is [old, new, src, period, date]: 旧JANコード, 新JANコード, *)
(* データソース, 期間, 処理日.  The JAN codes are the 13-digit codes that    *)
(* clean_jan_codes delivers, written "1", "2", "3".  src is "kao" (花王),   *)
(* "planet" (プラネット) or "matching" (マッチング); a frame loaded from the *)
(* CSV ledger has no metadata columns and its rows carry NA there.         *)

LedgerRow(old, new, src, period, date) ==
    [old |-> old, new |-> new, src |-> src, period |-> period, date |-> date]

FeedKinds == {"kao", "planet"}

\* A frame's rows with the input they came from and their place in it.
Tag(df, origin) == [i \in 1..Len(df) |-> [origin |-> origin, pos |-> i, row |-> df[i]]]

Untag(tagged) == [i \in 1..Len(tagged) |-> tagged[i].row]

RECURSIVE drop_duplicates_new_keep_last(_, _)
\* Variant: keep='last', the last row of every 新JANコード is kept.
drop_duplicates_new_keep_last(tagged, seen) ==
    IF tagged = <<>> THEN <<>>
    ELSE IF \E k \in 2..Len(tagged) : tagged[k].row.new = Head(tagged).row.new
         THEN drop_duplicates_new_keep_last(Tail(tagged), seen)
         ELSE <<Head(tagged)>> \o drop_duplicates_new_keep_last(Tail(tagged), seen)

\* Variant: no row is dropped for its 新JANコード.
drop_duplicates_new_none(tagged, seen) == tagged

RECURSIVE drop_duplicates_new(_, _)
\* all_data.drop_duplicates(subset=['新JANコード'], keep='first')
drop_duplicates_new(tagged, seen) ==
    IF tagged = <<>> THEN <<>>
    ELSE IF Head(tagged).row.new \in seen
         THEN drop_duplicates_new(Tail(tagged), seen)
         ELSE <<Head(tagged)>>
                \o drop_duplicates_new(Tail(tagged), seen \cup {Head(tagged).row.new})

\* Variant: step 6 is left out.
drop_same_jan_missing(tagged) == tagged

\* Step 6: all_data[all_data['旧JANコード'] != all_data['新JANコード']]
drop_same_jan(tagged) == SelectSeq(tagged, LAMBDA t : t.row.old # t.row.new)

\* Variant: step 3 compares the 新JANコード only.
filter_matching_new_only(existing, meta, kao, planet, matching) ==
    LET existing_kao_planet_jans ==
            IF existing # <<>> /\ meta
            THEN {r.new : r \in {x \in Range(existing) : x.src \in FeedKinds}}
            ELSE {}
        step2 ==
            IF matching # <<>> /\ existing_kao_planet_jans # {}
            THEN SelectSeq(matching, LAMBDA t : t.row.new \notin existing_kao_planet_jans)
            ELSE matching
        new_kao_planet_df == kao \o planet
        kao_planet_new_jans == {r.new : r \in Range(new_kao_planet_df)}
    IN IF new_kao_planet_df # <<>> /\ step2 # <<>>
       THEN SelectSeq(step2, LAMBDA t : t.row.new \notin kao_planet_new_jans)
       ELSE step2

\* Steps 1-3 of merge_and_deduplicate: the matching rows that are
\* concatenated.
filter_matching(existing, meta, kao, planet, matching) ==
    LET existing_kao_planet_jans ==
            IF existing # <<>> /\ meta
            THEN {r.new : r \in {x \in Range(existing) : x.src \in FeedKinds}}
            ELSE {}
        step2 ==
            IF matching # <<>> /\ existing_kao_planet_jans # {}
            THEN SelectSeq(matching, LAMBDA t : t.row.new \notin existing_kao_planet_jans)
            ELSE matching
        new_kao_planet_df == kao \o planet
        kao_planet_old_jans == {r.old : r \in Range(new_kao_planet_df)}
        kao_planet_new_jans == {r.new : r \in Range(new_kao_planet_df)}
    IN IF new_kao_planet_df # <<>> /\ step2 # <<>>
       THEN SelectSeq(SelectSeq(step2, LAMBDA t : t.row.new \notin kao_planet_new_jans),
                      LAMBDA t : t.row.old \notin kao_planet_old_jans)
       ELSE step2

\* Variant: the matching rows are concatenated first, all of them.
merge_and_deduplicate_matching_first(existing, meta, kao, planet, matching) ==
    drop_same_jan(drop_duplicates_new(
        Tag(matching, "matching") \o Tag(existing, "existing") \o Tag(kao, "kao")
            \o Tag(planet, "planet"), {}))

\* merge_and_deduplicate(existing_df, kao_df, planet_df, matching_df); meta
\* says whether existing_df has a データソース column.  The result keeps, with
\* every row, the input it came from.
merge_and_deduplicate(existing, meta, kao, planet, matching) ==
    LET kept_matching == filter_matching(existing, meta, kao, planet, Tag(matching, "matching"))
        all_data == Tag(existing, "existing") \o Tag(kao, "kao") \o Tag(planet, "planet")
                        \o kept_matching
    IN drop_same_jan(drop_duplicates_new(all_data, {}))

-----------------------------------------------------------------------------
(* Part II: the inputs of the merge runs                                   *)

\* Largest number of rows that the four inputs of one merge hold together.
MaxRows == 4

OldJans == {"1", "2"}
NewJans == {"2", "3"}

\* Rows of an accumulated ledger that has its metadata columns.
MetaRows == {LedgerRow(o, n, s, "P1", "D0") :
                o \in OldJans, n \in NewJans, s \in {"kao", "matching"}}

\* Rows of an accumulated ledger loaded without metadata columns.
BareRows == {LedgerRow(o, n, NA, NA, NA) : o \in OldJans, n \in NewJans}

\* This run's rows of one source, after update_metadata / add_metadata.
RunRows(src, period) ==
    {LedgerRow(o, n, src, period, "D1") : o \in OldJans, n \in NewJans}

NoMatchRun ==
    /\ new_row = NoRow
    /\ df_old = <<>>
    /\ df_old_processed = <<>>
    /\ looked_up = <<>>
    /\ matching_old = <<>>
    /\ candidates = <<>>
    /\ result = NoResult
    /\ BatchIdle

\* The four frames are ready for merge_and_deduplicate (main, line 583).
InitMerge ==
    /\ pc = "merge"
    /\ NoMatchRun
    /\ ledger_file = <<>>
    /\ ledger_saved = FALSE
    /\ loaded_df = <<>>
    /\ final_df = <<>>
    /\ merged_again = <<>>
    /\ files = NoFiles
    /\ existing_meta \in BOOLEAN
    /\ \E a \in 0..MaxRows :
        \E b \in 0..(MaxRows - a) :
         \E c \in 0..(MaxRows - a - b) :
          \E d \in 0..(MaxRows - a - b - c) :
            /\ existing_df \in [1..a -> IF existing_meta THEN MetaRows ELSE BareRows]
            /\ kao_df \in [1..b -> RunRows("kao", "P2")]
            /\ planet_df \in [1..c -> RunRows("planet", "P2")]
            /\ matching_df \in [1..d -> RunRows("matching", "")]

\* final_df = merge_and_deduplicate(existing_df, kao_df, planet_df, matching_df)
Merge ==
    /\ pc = "merge"
    /\ final_df' = merge_and_deduplicate(existing_df, existing_meta, kao_df,
                                         planet_df, matching_df)
    /\ pc' = "merged"
    /\ UNCHANGED <<batchVars, matchVars, ledger_file, ledger_saved, loaded_df, existing_df, existing_meta,
                   kao_df, planet_df, matching_df, merged_again, files>>

\* The same feed and matching rows merged once more into the result, which
\* carries the metadata columns of the frames it was built from.
MergeAgain ==
    /\ pc = "merged"
    /\ merged_again' = merge_and_deduplicate(Untag(final_df), TRUE, kao_df,
                                             planet_df, matching_df)
    /\ pc' = "merged-again"
    /\ UNCHANGED <<batchVars, matchVars, ledger_file, ledger_saved, loaded_df, existing_df, existing_meta,
                   kao_df, planet_df, matching_df, final_df, files>>

NextMerge == Merge \/ MergeAgain

SpecMerge == InitMerge /\ [][NextMerge]_vars

-----------------------------------------------------------------------------
(* Part II: properties of merge_and_deduplicate                            *)

Merged == pc \in {"merged", "merged-again"}

\* This run's feed rows.
FeedNow == kao_df \o planet_df

\* All rows handed to the merge, in priority order.
AllInput ==
    Tag(existing_df, "existing") \o Tag(kao_df, "kao") \o Tag(planet_df, "planet")
        \o Tag(matching_df, "matching")

\* The matching row m collides with one of this run's feed rows.
Collides(m) == \E f \in Range(FeedNow) : f.new = m.new \/ f.old = m.old

\* The new JAN of the matching row m is held by a feed row of the
\* accumulated ledger.
Protected(m) == \E e \in Range(existing_df) : e.src \in FeedKinds /\ e.new = m.new

\* The rows that are concatenated: all but the matching rows dropped by the
\* collision filters.
Entering ==
    SelectSeq(AllInput,
              LAMBDA t : t.origin = "matching" => ~Collides(t.row) /\ ~Protected(t.row))

\* The first row of rows that claims the new JAN n.
FirstClaimant(rows, n) ==
    rows[CHOOSE k \in 1..Len(rows) :
            /\ rows[k].row.new = n
            /\ \A j \in 1..(k - 1) : rows[j].row.new # n]

\* C5 as stated: every retained row is the first of all input rows that
\* claims its new JAN; a feed entry and a matching row that claim the same
\* new JAN leave the feed entry in the ledger and the matching row out.
C5_FirstOfAllInputs ==
    Merged =>
        /\ \A t \in Range(final_df) : t = FirstClaimant(AllInput, t.row.new)
        /\ \A f \in Range(Tag(kao_df, "kao") \o Tag(planet_df, "planet")) :
              \A m \in Range(Tag(matching_df, "matching")) :
                 f.row.new = m.row.new =>
                    m \notin Range(final_df) /\ f \in Range(final_df)

\* C5, amended: every retained row is the first claimant of its new JAN
\* among the accumulated rows, the 花王 rows, the プラネット rows and the
\* matching rows that passed the collision filters; a matching row that
\* shares its new JAN with a feed row is not retained, and the feed row is
\* retained when it is the first claimant and its two JANs differ.
C5_FirstOfEnteringRows ==
    Merged =>
        /\ \A t \in Range(final_df) :
              t \in Range(Entering) /\ t = FirstClaimant(Entering, t.row.new)
        /\ \A f \in Range(Tag(kao_df, "kao") \o Tag(planet_df, "planet")) :
              \A m \in Range(Tag(matching_df, "matching")) :
                 f.row.new = m.row.new =>
                    /\ m \notin Range(final_df)
                    /\ (f = FirstClaimant(Entering, f.row.new) /\ f.row.old # f.row.new)
                          => f \in Range(final_df)

\* C5 witness: a feed row is retained against a matching row that claimed
\* its new JAN, and a retained matching row follows an earlier matching
\* claimant of its new JAN that the collision filters dropped.
C5_Witness ==
    /\ pc = "merged"
    /\ \E f, m \in Range(final_df) :
          /\ f.origin \in FeedKinds /\ m.origin = "matching"
          /\ \E d \in Range(matching_df) : d.new = f.row.new
          /\ m # FirstClaimant(AllInput, m.row.new)

\* C6: no two rows of the merged ledger have the same new JAN.
C6_UniqueNewJan ==
    /\ Merged =>
          \A i, j \in 1..Len(final_df) :
              final_df[i].row.new = final_df[j].row.new => i = j
    /\ pc = "merged-again" =>
          \A i, j \in 1..Len(merged_again) :
              merged_again[i].row.new = merged_again[j].row.new => i = j

\* C6 witness: two input rows with different old JANs claim one new JAN,
\* and that new JAN is in the merged ledger.
C6_Witness ==
    /\ pc = "merged"
    /\ \E a, b \in Range(AllInput) :
          /\ a.row.new = b.row.new /\ a.row.old # b.row.old
          /\ \E t \in Range(final_df) : t.row.new = a.row.new

\* C7: no row of the merged ledger has its old JAN equal to its new JAN,
\* whichever input it came from.
C7_NoSameJan ==
    /\ Merged => \A t \in Range(final_df) : t.row.old # t.row.new
    /\ pc = "merged-again" => \A t \in Range(merged_again) : t.row.old # t.row.new

\* C7 witness: the accumulated ledger, the feed and the matching rows each
\* hold a row with equal JANs, and the merged ledger is not empty.
C7_Witness ==
    /\ pc = "merged"
    /\ \E e \in Range(existing_df) : e.old = e.new
    /\ \E f \in Range(FeedNow) : f.old = f.new
    /\ \E m \in Range(matching_df) : m.old = m.new
    /\ final_df # <<>>

\* C8: a matching row of this run whose new JAN equals a feed row's new JAN,
\* or whose old JAN equals a feed row's old JAN, is not in the merged ledger.
C8_CollidingMatchingDropped ==
    Merged =>
        \A m \in Range(Tag(matching_df, "matching")) :
            Collides(m.row) => m \notin Range(final_df)

\* C8 witness: a matching row shares only its old JAN with a feed row and is
\* dropped, while another matching row is retained.
C8_Witness ==
    /\ pc = "merged"
    /\ \E m \in Range(matching_df) :
          /\ \E f \in Range(FeedNow) : f.old = m.old
          /\ \A f \in Range(FeedNow) : f.new # m.new
          /\ m.old # m.new
          /\ \A e \in Range(existing_df) : e.new # m.new
    /\ \E t \in Range(final_df) : t.origin = "matching"

NewJanSet(tagged) == {t.row.new : t \in Range(tagged)}

\* C10: merging the same feed and matching rows a second time leaves the
\* set of new JANs as it was after the first merge.
C10_MergeTwiceSameNewJans ==
    pc = "merged-again" => NewJanSet(merged_again) = NewJanSet(final_df)

-----------------------------------------------------------------------------
(* Part III: main of the weekly ledger update, run after run               *)
(*                                                                         *)
(* The JAN cells of the input files are raw texts; clean_jan_codes makes   *)
(* the 13-digit codes of them.  The processing date is one token.          *)

\* Upper bound on the rows of one input file of a run.
MaxFile == 1

\* str.zfill(13).str[:13]: the width of a JAN code.
JanWidth == 13

Digits == {"0", "1", "2", "3", "4", "5", "6", "7", "8", "9"}

RECURSIVE remove_non_digits(_)
\* str.replace(r'\D+', '', regex=True): the digits of the text, in order.
remove_non_digits(s) ==
    IF s = "" THEN ""
    ELSE IF SubSeq(s, 1, 1) \in Digits
         THEN SubSeq(s, 1, 1) \o remove_non_digits(SubSeq(s, 2, Len(s)))
         ELSE remove_non_digits(SubSeq(s, 2, Len(s)))

RECURSIVE zfill(_, _)
\* str.zfill(width): zeros are put in front of a text shorter than width.
zfill(s, width) == IF Len(s) >= width THEN s ELSE zfill("0" \o s, width)

\* Variant: the code is not padded.
clean_jan_code_unpadded(v) ==
    LET s == remove_non_digits(astype_str(v))
    IN SubSeq(s, 1, IF Len(s) < JanWidth THEN Len(s) ELSE JanWidth)

\* clean_jan_codes on one cell:
\* astype(str).str.replace(r'\D+', '').str.zfill(13).str[:13]
clean_jan_code(v) ==
    LET s == zfill(remove_non_digits(astype_str(v)), JanWidth)
    IN SubSeq(s, 1, JanWidth)

\* clean_jan_codes(df): both JAN columns are rewritten.
clean_jan_codes(df) ==
    [i \in 1..Len(df) |->
        [df[i] EXCEPT !.old = clean_jan_code(df[i].old),
                      !.new = clean_jan_code(df[i].new)]]

\* Rows of the 花王・プラネット list as normalize_columns delivers them.
FeedFileRows ==
    { LedgerRow("1", "3", "kao", NA, NA), LedgerRow("2", "2", "kao", NA, NA),
      LedgerRow("0000000000001", " 3", "planet", NA, NA),
      LedgerRow("1", "2", "planet", NA, NA) }

\* Rows of the matching result file; the JAN cells are not 13-digit codes:
\* padded with a blank, with a separator or a prefix, too long, or missing.
MatchingFileRows ==
    {LedgerRow(o, n, NA, NA, NA) : o \in {" 1", "0000000000002"}, n \in {"2-", "JAN:3"}}
    \cup {LedgerRow(NA, "12345678901234", NA, NA, NA)}

\* What the operator types for the period of a feed.
PeriodInputs == {"P1", "P2"}

\* What the operator types for the periods to keep.
KeepInputs == {"", "P1,P2"}

\* [p.strip() for p in s.split(',')]
split_periods(s) ==
    CASE s = "P1,P2" -> {"P1", "P2"}
      [] s = "P1"    -> {"P1"}
      [] s = "P2"    -> {"P2"}
      [] OTHER       -> {s}

\* periods_to_keep: the empty input keeps nothing.
periods_to_keep(keep_str) == IF keep_str # "" THEN split_periods(keep_str) ELSE {}

\* A cell of the workbook read back with dtype=str: an empty cell is NaN.
read_excel_cell(c) == IF c = "" THEN NA ELSE c

\* load_file_flexible on the workbook: all columns.
load_excel(file) ==
    [i \in 1..Len(file) |->
        LedgerRow(file[i].old, file[i].new, read_excel_cell(file[i].src),
                  read_excel_cell(file[i].period), read_excel_cell(file[i].date))]

\* load_file_flexible on the CSV: the CSV has the required columns only.
load_csv(file) ==
    [i \in 1..Len(file) |-> LedgerRow(file[i].old, file[i].new, NA, NA, NA)]

\* df[df['データソース'] == source]
split_source(df, source) == SelectSeq(df, LAMBDA r : r.src = source)

update_metadata(df, period) ==
    [i \in 1..Len(df) |-> LedgerRow(df[i].old, df[i].new, df[i].src, period, "D1")]

add_metadata(df, source, period) ==
    [i \in 1..Len(df) |-> LedgerRow(df[i].old, df[i].new, source, period, "D1")]

\* Variant: every row of the source is removed, whatever its period.
remove_specific_source_data_all(existing, meta, source_name, keep) ==
    IF existing = <<>> THEN existing
    ELSE IF ~meta THEN existing
    ELSE SelectSeq(existing, LAMBDA r : r.src # source_name)

remove_specific_source_data(existing, meta, source_name, keep) ==
    IF existing = <<>> THEN existing
    ELSE IF ~meta THEN existing
    ELSE LET non_target == SelectSeq(existing, LAMBDA r : r.src # source_name)
             target_keep == SelectSeq(existing,
                               LAMBDA r : r.src = source_name /\ r.period \in keep)
         IN non_target \o target_keep

\* A run starts: nothing is loaded yet.
InitLedger ==
    /\ pc = "start"
    /\ NoMatchRun
    /\ LedgerIdle

\* Column names: 旧JANコード, 旧商品名, 新JANコード, 新商品名, 新JAN備考,
\* データソース, 期間, 処理日.
REQUIRED_COLUMNS == {"old_jan", "old_name", "new_jan", "new_name", "note"}
METADATA_COLUMNS == {"src", "period", "date"}
OUTPUT_COLUMNS_EXCEL == REQUIRED_COLUMNS \cup METADATA_COLUMNS
OUTPUT_COLUMNS_CSV == REQUIRED_COLUMNS

\* The sheet load_file_flexible reads (確定) and the sheet DataFrame.to_excel
\* writes when no sheet name is given.
SheetRead == "kakutei"
SheetWritten == "Sheet1"

\* What the operator can choose as the accumulated ledger: nothing, the CSV
\* or the workbook the last run wrote, or a workbook that holds the rows of
\* the last run in a sheet 確定.
ExistingChoices == {"none", "csv", "xlsx-written", "xlsx"}

\* The sheets of the chosen workbook.
sheets_of(choice) == IF choice = "xlsx-written" THEN {SheetWritten} ELSE {SheetRead}

\* load_file_flexible(existing_path): read_excel(sheet_name='確定') raises
\* when the workbook has no such sheet, and the function raises ValueError.
load_file_flexible(choice, file) ==
    CASE choice = "csv" -> [raised |-> "", df |-> load_csv(file), meta |-> FALSE]
      [] SheetRead \in sheets_of(choice) ->
            [raised |-> "", df |-> load_excel(file), meta |-> TRUE]
      [] OTHER -> [raised |-> "ValueError", df |-> <<>>, meta |-> FALSE]

\* The columns a matching file can have after the renaming of
\* normalize_columns, and the columns of a 花王・プラネット list.
MatchingColumnSets ==
    { REQUIRED_COLUMNS, REQUIRED_COLUMNS \ {"note"}, REQUIRED_COLUMNS \ {"old_name"} }

FeedColumnSets ==
    { REQUIRED_COLUMNS \cup {"src"}, REQUIRED_COLUMNS,
      (REQUIRED_COLUMNS \ {"new_name"}) \cup {"src"} }

\* Variant: no check of the columns.
normalize_columns_unchecked(columns, file_type) ==
    [raised |-> "", columns |-> columns \cup {"note"}]

\* normalize_columns(df, file_type): ValueError when a required column is
\* missing; a matching file gets an empty 新JAN備考 column when it has none.
normalize_columns(columns, file_type) ==
    IF file_type = "kao_planet"
    THEN IF REQUIRED_COLUMNS \subseteq columns
         THEN [raised |-> "", columns |-> columns]
         ELSE [raised |-> "ValueError", columns |-> columns]
    ELSE IF (REQUIRED_COLUMNS \ {"note"}) \subseteq columns
         THEN [raised |-> "", columns |-> columns \cup {"note"}]
         ELSE [raised |-> "ValueError", columns |-> columns]

\* Step 1 of main: the accumulated ledger is loaded from the file the
\* operator chooses and its JAN codes are cleaned, or the run starts from
\* nothing.  A failed load ends the run.
LoadExisting ==
    /\ pc \in {"start", "saved", "returned"}
    /\ \E choice \in ExistingChoices :
          LET loaded == load_file_flexible(choice, ledger_file)
              failed == choice # "none" /\ loaded.raised # ""
          IN /\ choice # "none" => ledger_saved
             /\ loaded_df' = IF choice = "none" \/ failed THEN <<>>
                             ELSE clean_jan_codes(loaded.df)
             /\ existing_meta' = (choice # "none" /\ ~failed /\ loaded.meta)
             /\ files' = [NoFiles EXCEPT !.existing = choice,
                                         !.error = IF failed THEN "existing" ELSE ""]
             /\ pc' = IF failed THEN "returned" ELSE "step2"
    /\ existing_df' = loaded_df'
    /\ kao_df' = <<>>
    /\ planet_df' = <<>>
    /\ matching_df' = <<>>
    /\ final_df' = <<>>
    /\ UNCHANGED <<batchVars, matchVars, ledger_file, ledger_saved, merged_again>>

\* Step 2 of main: the matching result is loaded, checked, stamped and
\* cleaned.  A missing column ends the run.
LoadMatching ==
    /\ pc = "step2"
    /\ \E file \in SeqUpTo(MatchingFileRows, MaxFile) :
        \E columns \in MatchingColumnSets :
          LET normalized == normalize_columns(columns, "matching")
          IN IF normalized.raised # ""
             THEN /\ file = <<>>
                  /\ pc' = "returned"
                  /\ files' = [files EXCEPT !.matching = columns, !.error = "matching"]
                  /\ UNCHANGED matching_df
             ELSE /\ matching_df' = clean_jan_codes(add_metadata(file, "matching", ""))
                  /\ pc' = "step3"
                  /\ files' = [files EXCEPT !.matching = columns]
    /\ UNCHANGED <<batchVars, matchVars, ledger_file, ledger_saved, loaded_df, existing_df,
                   existing_meta, kao_df, planet_df, final_df, merged_again>>

\* Step 3 of main with a 花王・プラネット list: the list is checked, cleaned
\* and split, and for each source that has rows the ledger is purged and
\* the rows are stamped.  A missing column ends the run.
LoadFeed ==
    /\ pc = "step3"
    /\ \E file \in SeqUpTo(FeedFileRows, MaxFile) \ {<<>>} :
       \E columns \in FeedColumnSets :
        \E kao_period, planet_period \in PeriodInputs :
         \E kao_keep, planet_keep \in KeepInputs :
            LET normalized == normalize_columns(columns, "kao_planet")
                failed == normalized.raised # "" \/ "src" \notin normalized.columns
                kao    == split_source(clean_jan_codes(file), "kao")
                planet == split_source(clean_jan_codes(file), "planet")
                after_kao ==
                    IF kao # <<>>
                    THEN remove_specific_source_data(existing_df, existing_meta, "kao",
                                                     periods_to_keep(kao_keep))
                    ELSE existing_df
                after_planet ==
                    IF planet # <<>>
                    THEN remove_specific_source_data(after_kao, existing_meta, "planet",
                                                     periods_to_keep(planet_keep))
                    ELSE after_kao
            IN IF failed
               THEN /\ kao_period = "P1" /\ kao_keep = ""
                    /\ planet_period = "P1" /\ planet_keep = ""
                    /\ pc' = "returned"
                    /\ files' = [files EXCEPT !.feed = columns, !.error = "feed"]
                    /\ UNCHANGED <<existing_df, kao_df, planet_df>>
               ELSE /\ kao = <<>> => kao_period = "P1" /\ kao_keep = ""
                    /\ planet = <<>> => planet_period = "P1" /\ planet_keep = ""
                    /\ existing_df' = after_planet
                    /\ kao_df' = IF kao # <<>> THEN update_metadata(kao, kao_period) ELSE kao
                    /\ planet_df' = IF planet # <<>>
                                    THEN update_metadata(planet, planet_period)
                                    ELSE planet
                    /\ pc' = "step5"
                    /\ files' =
                         [files EXCEPT
                            !.feed = columns,
                            !.keep = [kao |-> IF kao # <<>>
                                              THEN periods_to_keep(kao_keep) ELSE {},
                                      planet |-> IF planet # <<>>
                                                 THEN periods_to_keep(planet_keep)
                                                 ELSE {}]]
    /\ UNCHANGED <<batchVars, matchVars, ledger_file, ledger_saved, loaded_df, existing_meta,
                   matching_df, final_df, merged_again>>

\* Step 3 of main without a list: the ledger keeps its feed rows.
SkipFeed ==
    /\ pc = "step3"
    /\ pc' = "step5"
    /\ UNCHANGED <<batchVars, matchVars, ledger_file, ledger_saved, loaded_df, existing_df,
                   existing_meta, kao_df, planet_df, matching_df, final_df,
                   merged_again, files>>

\* Steps 5 and 6 of main: the merge, then the CSV and the workbook are
\* written.
MergeAndSave ==
    /\ pc = "step5"
    /\ final_df' = merge_and_deduplicate(existing_df, existing_meta, kao_df,
                                         planet_df, matching_df)
    /\ ledger_file' = Untag(final_df')
    /\ ledger_saved' = TRUE
    /\ pc' = "saved"
    /\ UNCHANGED <<batchVars, matchVars, loaded_df, existing_df, existing_meta, kao_df,
                   planet_df, matching_df, merged_again, files>>

NextLedger == LoadExisting \/ LoadMatching \/ LoadFeed \/ SkipFeed \/ MergeAndSave

SpecLedger == InitLedger /\ [][NextLedger]_vars

-----------------------------------------------------------------------------
(* Part III: properties of the ledger over runs                            *)

-----------------------------------------------------------------------------
(* Part IV: process_master_data over a batch of NEW records                *)
(*                                                                         *)
(* A row of df_new is [idx, row]: idx is the index label the row got when  *)
(* the file was loaded (0, 1, 2, ...), which clean_initial_data keeps.     *)

\* Largest number of NEW records in a batch of the model.
MaxNew == 3

\* load_data: the rows are labelled 0..n-1 in file order.
Labelled(df) == [i \in 1..Len(df) |-> [idx |-> i - 1, row |-> df[i]]]

\* clean_initial_data on the labelled NEW frame: the labels are not renewed.
clean_initial_data_new(df) ==
    SelectSeq(df, LAMBDA x : ~(isna(x.row.maker) /\ isna(x.row.brand) /\ isna(x.row.type)))

\* Variant: without reset_index the frames are aligned on the index labels,
\* and a row whose label has no result gets empty result columns.
concat_axis1_on_labels(new, res) ==
    [k \in 1..Len(new) |->
        [new |-> new[k].row,
         result |-> IF new[k].idx + 1 <= Len(res) THEN res[new[k].idx + 1]
                    ELSE NoCandidate("", "")]]

\* pd.concat([df_new.reset_index(drop=True), analysis_result], axis=1):
\* both frames are labelled 0..n-1, so row k meets result k.
concat_axis1(new, res) ==
    [k \in 1..Len(new) |-> [new |-> new[k].row, result |-> res[k]]]

RECURSIVE drop_duplicates_jan(_, _)
\* matched_df.drop_duplicates(subset=['JANコード_旧']): the first row of
\* each JAN code is kept; missing codes count as one code.
drop_duplicates_jan(rows, seen) ==
    IF rows = <<>> THEN <<>>
    ELSE IF Head(rows).jan \in seen THEN drop_duplicates_jan(Tail(rows), seen)
    ELSE <<Head(rows)>> \o drop_duplicates_jan(Tail(rows), seen \cup {Head(rows).jan})

\* Variant: the brand tiers are tried after the maker + type tiers.
select_pattern_maker_first(row, processed) ==
    LET new_maker_name == new_key(row.maker)
        new_brand      == new_key(row.brand)
        new_type       == new_key(row.type)
        rg             == get_weight_range(row.weight)
        with_weight    == notna(row.weight) /\ range_truthy(rg)
        brand_rows     == lookup_or_empty(loc_brand(processed, new_brand))
        multi_rows     == lookup_or_empty(loc_multi(processed, new_maker_name, new_type))
        pattern_a == SelectSeq(brand_rows, LAMBDA r : in_weight_range(r.weight_float, rg))
        pattern_c == SelectSeq(multi_rows, LAMBDA r : in_weight_range(r.weight_float, rg))
    IN IF truthy(new_maker_name) /\ truthy(new_type) /\ with_weight /\ pattern_c # <<>>
       THEN [rows |-> pattern_c, pattern |-> "maker+type+weight"]
       ELSE IF truthy(new_maker_name) /\ truthy(new_type) /\ multi_rows # <<>>
       THEN [rows |-> multi_rows, pattern |-> "maker+type-only"]
       ELSE IF truthy(new_brand) /\ with_weight /\ pattern_a # <<>>
       THEN [rows |-> pattern_a, pattern |-> "brand+weight"]
       ELSE IF truthy(new_brand) /\ brand_rows # <<>>
       THEN [rows |-> brand_rows, pattern |-> "brand-only"]
       ELSE [rows |-> <<>>, pattern |-> ""]

\* create_candidate_sheet_data, lines 432-498: patterns A, B, C, D in turn;
\* the first one that finds rows gives matched_df and the pattern name.
select_pattern(row, processed) ==
    LET new_maker_name == new_key(row.maker)
        new_brand      == new_key(row.brand)
        new_type       == new_key(row.type)
        rg             == get_weight_range(row.weight)
        with_weight    == notna(row.weight) /\ range_truthy(rg)
        brand_rows     == lookup_or_empty(loc_brand(processed, new_brand))
        multi_rows     == lookup_or_empty(loc_multi(processed, new_maker_name, new_type))
        pattern_a == SelectSeq(brand_rows, LAMBDA r : in_weight_range(r.weight_float, rg))
        pattern_c == SelectSeq(multi_rows, LAMBDA r : in_weight_range(r.weight_float, rg))
    IN IF truthy(new_brand) /\ with_weight /\ pattern_a # <<>>
       THEN [rows |-> pattern_a, pattern |-> "brand+weight"]
       ELSE IF truthy(new_brand) /\ brand_rows # <<>>
       THEN [rows |-> brand_rows, pattern |-> "brand-only"]
       ELSE IF truthy(new_maker_name) /\ truthy(new_type) /\ with_weight /\ pattern_c # <<>>
       THEN [rows |-> pattern_c, pattern |-> "maker+type+weight"]
       ELSE IF truthy(new_maker_name) /\ truthy(new_type) /\ multi_rows # <<>>
       THEN [rows |-> multi_rows, pattern |-> "maker+type-only"]
       ELSE [rows |-> <<>>, pattern |-> ""]

\* create_candidate_sheet_data, lines 500-541: the rows listed for one NEW
\* record; idx is the record's index label.
sheet_rows(idx, row, processed) ==
    LET sel == select_pattern(row, processed)
        matched_df == drop_duplicates_jan(sel.rows, {})
        similarities ==
            sort_desc([i \in 1..Len(matched_df) |->
                         [score |-> calculate_similarity(row.name, matched_df[i].name),
                          name |-> matched_df[i].name, jan |-> matched_df[i].jan]], <<>>)
    IN [i \in 1..Len(similarities) |->
           [new_idx |-> idx, new_jan |-> row.jan, old_jan |-> similarities[i].jan,
            old_name |-> similarities[i].name, score |-> similarities[i].score,
            pattern |-> sel.pattern]]

RECURSIVE create_candidate_sheet_data(_, _, _)
\* create_candidate_sheet_data: for every row of df_new the dict
\* results[idx] is consulted, idx being the row's index label; a label
\* beyond the list raises IndexError.
create_candidate_sheet_data(new, processed, res) ==
    IF new = <<>> THEN [raised |-> "", list |-> <<>>]
    ELSE LET x == Head(new)
         IN IF x.idx + 1 > Len(res) THEN [raised |-> "IndexError", list |-> <<>>]
            ELSE LET rest == create_candidate_sheet_data(Tail(new), processed, res)
                     here == IF res[x.idx + 1].has THEN sheet_rows(x.idx, x.row, processed)
                             ELSE <<>>
                 IN IF rest.raised # "" THEN rest
                    ELSE [raised |-> "", list |-> here \o rest.list]

\* NEW records of a batch: one without any key, and one for each pattern.
BatchNew ==
    { Row(NA, NA, NA, "100", "ab", "N0"),
      Row("M1", "B1", "T1", "100", "ab", "N1"),
      Row("M1", "B1", "T1", NA, "bc", "N2"),
      Row("M1", NA, "T1", "100", "ab", "N3"),
      Row("M1", NA, "T1", NA, "ab", "N4"),
      Row("M1", "B3", "T1", "100", "ab", "N5") }

\* OLD records of a batch.
BatchOld ==
    { Row("M1", "B1", "T1", "120", "ab", "J1"),
      Row("M1", "B1", "T1", NA, "abc", "J1"),
      Row("M1", "B1", "T1", "150", "abc", "J2"),
      Row("M1", NA, "T1", "120", "bc", "J3"),
      Row("M1", "B2 ", "T1", "150", "ab", "J2"),
      Row("M1", "B1", "T1", "120", "bc", NA),
      Row(NA, NA, NA, "120", "ab", "J4") }

\* load_data of both masters has returned.
InitBatch ==
    /\ pc = "batch-loaded"
    /\ new_input \in SeqUpTo(BatchNew, MaxNew)
    /\ old_input \in SeqUpTo(BatchOld, MaxOld)
    /\ df_old = old_input
    /\ new_row = NoRow
    /\ df_old_processed = <<>>
    /\ looked_up = <<>>
    /\ matching_old = <<>>
    /\ candidates = <<>>
    /\ result = NoResult
    /\ df_new = <<>>
    /\ dropped = <<0, 0>>
    /\ results = <<>>
    /\ final_join = <<>>
    /\ candidates_list = <<>>
    /\ LedgerIdle

\* process_master_data, lines 144-153: both masters are cleansed, each drop
\* count is printed, and the OLD master is preprocessed.
CleanBoth ==
    /\ pc = "batch-loaded"
    /\ df_new' = clean_initial_data_new(Labelled(new_input))
    /\ df_old' = clean_initial_data(df_old)
    /\ dropped' = <<Len(new_input) - Len(df_new'), Len(df_old) - Len(df_old')>>
    /\ df_old_processed' = preprocess_old_data(df_old')
    /\ pc' = "loop"
    /\ UNCHANGED <<new_input, old_input, results, final_join, candidates_list, new_row, looked_up,
                   matching_old, candidates, result, ledgerVars>>

\* Variant: the lookup hands out the rows of the shared frame and the pass
\* removes them from it.
MatchRecordConsuming ==
    /\ pc = "loop"
    /\ Len(results) < Len(df_new)
    /\ LET x == df_new[Len(results) + 1]
           r == find_best_match(x.row, df_old_processed, df_old)
       IN /\ new_row' = x.row
          /\ looked_up' = r.looked_up
          /\ matching_old' = r.matching_old
          /\ candidates' = r.candidates
          /\ result' = r.result
          /\ df_old_processed' =
                SelectSeq(df_old_processed, LAMBDA o : o \notin Range(r.looked_up))
          /\ IF r.result.raised # ""
             THEN pc' = "aborted" /\ UNCHANGED results
             ELSE pc' = "loop" /\ results' = Append(results, r.result)
    /\ UNCHANGED <<new_input, old_input, df_new, dropped, final_join, candidates_list, df_old,
                   ledgerVars>>

\* process_master_data, lines 161-168: one pass of the loop; an exception
\* of find_best_match ends the run (lines 217-219).
MatchRecord ==
    /\ pc = "loop"
    /\ Len(results) < Len(df_new)
    /\ LET x == df_new[Len(results) + 1]
           r == find_best_match(x.row, df_old_processed, df_old)
       IN /\ new_row' = x.row
          /\ looked_up' = r.looked_up
          /\ matching_old' = r.matching_old
          /\ candidates' = r.candidates
          /\ result' = r.result
          /\ IF r.result.raised # ""
             THEN pc' = "aborted" /\ UNCHANGED results
             ELSE pc' = "loop" /\ results' = Append(results, r.result)
    /\ UNCHANGED <<new_input, old_input, df_new, dropped, final_join, candidates_list, df_old,
                   df_old_processed, ledgerVars>>

\* process_master_data, lines 171-203: the results are joined to the NEW
\* rows and the CSV is written.
JoinResults ==
    /\ pc = "loop"
    /\ Len(results) = Len(df_new)
    /\ final_join' = concat_axis1(df_new, results)
    /\ pc' = "joined"
    /\ UNCHANGED <<new_input, old_input, df_new, dropped, results, candidates_list, matchVars,
                   ledgerVars>>

\* process_master_data, lines 205-219: the candidate sheet is built; an
\* exception ends the run.
CandidateSheet ==
    /\ pc = "joined"
    /\ LET c == create_candidate_sheet_data(df_new, df_old_processed, results)
       IN /\ candidates_list' = c.list
          /\ pc' = IF c.raised # "" THEN "aborted" ELSE "done"
    /\ UNCHANGED <<new_input, old_input, df_new, dropped, results, final_join, matchVars, ledgerVars>>

NextBatch == CleanBoth \/ MatchRecord \/ JoinResults \/ CandidateSheet

SpecBatch == InitBatch /\ [][NextBatch]_vars

-----------------------------------------------------------------------------
(* Part IV: properties of the batch                                        *)

\* The loop has run to its end and the results are joined.
Joined == pc \in {"joined", "done"} \/ (pc = "aborted" /\ Len(final_join) > 0)

\* The NEW record r has one of its three keys.
HasKey(r) == notna(r.maker) \/ notna(r.brand) \/ notna(r.type)

\* The cleansed NEW records in input order.
CleansedNew == SelectSeq(new_input, HasKey)

SheetStepTaken == pc = "done" \/ (pc = "aborted" /\ Len(results) = Len(df_new) /\ Joined)

\* The rows of the candidate sheet that belong to the NEW record of label idx.
SheetRowsOf(idx) == SelectSeq(candidates_list, LAMBDA c : c.new_idx = idx)

\* C13: the candidate sheet holds rows for a NEW record exactly when that
\* record's own result has a winning match, also when cleansing removed
\* rows of the NEW master.
C13_SheetRowsIffWinner ==
    SheetStepTaken =>
        \A k \in 1..Len(df_new) :
            (SheetRowsOf(df_new[k].idx) # <<>>) <=> results[k].has

\* The OLD weight text of r lies in the window of the NEW weight text w.
InWindowOf(r, w) == notna(w) /\ parses(w) /\ InWindow(r, w)

\* The preprocessed OLD rows of the four tiers for the NEW record n, in OLD
\* order: 1 brand+weight, 2 brand-only, 3 maker+type+weight, 4 maker+type-only.
TierRows(n, t) ==
    CASE t = 1 -> RowsWhere(LAMBDA i : SameBrand(n, df_old[i]) /\ InWindowOf(df_old[i], n.weight))
      [] t = 2 -> RowsWhere(LAMBDA i : SameBrand(n, df_old[i]))
      [] t = 3 -> RowsWhere(LAMBDA i : SameMakerType(n, df_old[i])
                                        /\ InWindowOf(df_old[i], n.weight))
      [] OTHER -> RowsWhere(LAMBDA i : SameMakerType(n, df_old[i]))

TierName(t) ==
    CASE t = 1 -> "brand+weight"
      [] t = 2 -> "brand-only"
      [] t = 3 -> "maker+type+weight"
      [] OTHER -> "maker+type-only"

Without(df, gone) ==
    LET F[i \in 0..Len(df)] ==
            IF i = 0 THEN <<>>
            ELSE IF i \in gone THEN F[i - 1] ELSE Append(F[i - 1], df[i])
    IN F[Len(df)]

\* The positions of the rows of df whose three keys are all absent.
Keyless(df) ==
    {i \in 1..Len(df) : isna(df[i].maker) /\ isna(df[i].brand) /\ isna(df[i].type)}

\* C18: cleansing removes exactly the rows whose maker name, brand code and
\* type code are all absent and keeps the others unchanged and in order;
\* the printed drop count is rows before minus rows after; both masters
\* are cleansed before any record is matched.
C18_CleansingDropsKeylessRows ==
    /\ pc = "batch-loaded" => results = <<>> /\ result = NoResult
    /\ pc \in {"loop", "joined", "done", "aborted"} =>
          /\ [k \in 1..Len(df_new) |-> df_new[k].row] = Without(new_input, Keyless(new_input))
          /\ df_old = Without(old_input, Keyless(old_input))
          /\ dropped = <<Len(new_input) - Len(df_new), Len(old_input) - Len(df_old)>>
          /\ dropped = <<Cardinality(Keyless(new_input)), Cardinality(Keyless(old_input))>>
          /\ df_old_processed = preprocess_old_data(Without(old_input, Keyless(old_input)))

\* C18 witness: one row was dropped from each master, and a row that lacks
\* only its brand code was kept in each.
C18_Witness ==
    /\ pc = "loop"
    /\ dropped = <<1, 1>>
    /\ \E x \in Range(df_new) : isna(x.row.brand)
    /\ \E r \in Range(df_old) : isna(r.brand)

\* The brand code a cell stands for: the number of a numeric cell, the
\* trimmed text of a text cell.
BrandCodeOf(v) == IF v \in {Int7, Float7} THEN "7" ELSE strip(v)

SameBrandCode(n, o) ==
    Present(n.brand) /\ notna(o.brand) /\ BrandCodeOf(o.brand) = BrandCodeOf(n.brand)

\* C20: for a NEW record with a brand code, every OLD record of the same
\* brand code whose weight is inside the window of the NEW weight has its
\* (name, JAN code) pair among the scored candidates, and the index lookup
\* returned the rows a linear scan of the OLD master returns.
C20_InWindowBrandRecordsAreScored ==
    (pc = "matched" /\ Present(new_row.brand)) =>
        /\ looked_up = scan_brand(df_old_processed, new_key(new_row.brand))
        /\ \A i \in 1..Len(df_old) :
              (SameBrandCode(new_row, df_old[i]) /\ InWindowOf(df_old[i], new_row.weight))
                  => \E c \in Range(candidates) :
                        c.name = df_old[i].name /\ c.jan = df_old[i].jan

\* The lookup alone: it always returns the rows of the linear scan.
C20_LookupEqualsScan ==
    (pc = "matched" /\ Present(new_row.brand)) =>
        looked_up = scan_brand(df_old_processed, new_key(new_row.brand))

-----------------------------------------------------------------------------
(* Part III: properties of the ledger files and of failing runs            *)

\* Raw JAN cells: missing, empty, padded, with separators or a prefix, in
\* float notation, negative, too long, and 13-digit codes.
RawJanCells ==
    {NA, "", " 1", "2-", "JAN:3", "4901234567890", "0000000000002",
     "4.90123E+12", "-5", "49-0123 456", "12345678901234"}

Canonical(j) ==
    Len(j) = JanWidth /\ \A i \in 1..Len(j) : SubSeq(j, i, i) \in Digits

\* The positions of the digits in the text t.
DigitPositions(t) == {i \in 1..Len(t) : SubSeq(t, i, i) \in Digits}

\* The position of the k-th digit of the text t.
KthDigit(t, k) ==
    CHOOSE p \in DigitPositions(t) :
        Cardinality({q \in DigitPositions(t) : q < p}) = k - 1

\* c is the digits of the cell v, in order, behind as many zeros as make
\* the width (the first 13 digits when v has more).
PaddedDigitsOf(v, c) ==
    LET t == astype_str(v)
        n == Cardinality(DigitPositions(t))
        m == IF n < JanWidth THEN n ELSE JanWidth
    IN /\ \A i \in 1..(JanWidth - m) : SubSeq(c, i, i) = "0"
       /\ \A k \in 1..m :
             SubSeq(c, JanWidth - m + k, JanWidth - m + k)
                = SubSeq(t, KthDigit(t, k), KthDigit(t, k))

MergeInputs ==
    Range(existing_df) \cup Range(kao_df) \cup Range(planet_df) \cup Range(matching_df)

AfterStep1 == pc \in {"step2", "returned"} /\ files.matching = {}

\* An empty cell and a missing cell are the same entry value.
SameCell(a, b) == a = b \/ (a \in {"", NA} /\ b \in {"", NA})

SameEntry(a, b) ==
    /\ a.old = b.old /\ a.new = b.new
    /\ SameCell(a.src, b.src) /\ SameCell(a.period, b.period) /\ SameCell(a.date, b.date)

\* C22: the ledger a run wrote, loaded again from the written CSV or from
\* the written workbook, is the same set of entries: the load succeeds and
\* every written entry is loaded with the same JAN codes, source, period
\* and processing date, and nothing else is loaded.
C22_WrittenLedgerLoadsBack ==
    (AfterStep1 /\ files.existing \in {"csv", "xlsx-written"}) =>
        /\ files.error = ""
        /\ \A w \in Range(ledger_file) : \E l \in Range(loaded_df) : SameEntry(w, l)
        /\ \A l \in Range(loaded_df) : \E w \in Range(ledger_file) : SameEntry(w, l)

\* The same for a workbook that holds the written rows in a sheet 確定.
C22_HoldsForSheetKakutei ==
    (AfterStep1 /\ files.existing = "xlsx") =>
        /\ files.error = ""
        /\ \A w \in Range(ledger_file) : \E l \in Range(loaded_df) : SameEntry(w, l)
        /\ \A l \in Range(loaded_df) : \E w \in Range(ledger_file) : SameEntry(w, l)

\* From the written CSV the JAN codes come back, the metadata does not.
C22_CsvKeepsJanCodes ==
    (AfterStep1 /\ files.existing = "csv") =>
        /\ files.error = ""
        /\ Len(loaded_df) = Len(ledger_file)
        /\ \A i \in 1..Len(loaded_df) :
              loaded_df[i].old = ledger_file[i].old /\ loaded_df[i].new = ledger_file[i].new

\* The feed sources this run took rows of.
TakenSources ==
    (IF kao_df # <<>> THEN {"kao"} ELSE {}) \cup (IF planet_df # <<>> THEN {"planet"} ELSE {})

\* The loaded entry e is in the ledger the run wrote, as it was loaded.
Kept(e) ==
    /\ e \in Range(ledger_file)
    /\ \E t \in Range(final_df) : t.origin = "existing" /\ t.row = e

\* The run purges the loaded entry e: the ledger has its metadata columns,
\* the run took rows of e's source, and e's period is not one to keep.
Purged(e) ==
    /\ existing_meta
    /\ e.src \in TakenSources
    /\ e.period \notin files.keep[e.src]

WellFormedInputs ==
    /\ files.error = ""
    /\ files.existing # "none" => files.existing = "csv" \/ SheetRead \in sheets_of(files.existing)
    /\ (REQUIRED_COLUMNS \ {"note"}) \subseteq files.matching
    /\ files.feed # {} => (REQUIRED_COLUMNS \cup {"src"}) \subseteq files.feed

\* C30: a run whose accumulated ledger cannot be read, whose matching file
\* lacks one of the four required columns, or whose feed file lacks a
\* required column or the source column, ends before the merge and writes
\* nothing: only a run with well-formed inputs reaches the merge, a failed
\* run has no merge result, and no step other than the save of a completed
\* run changes the persisted ledger.
C30_FailedLoadWritesNothing ==
    /\ [](pc \in {"step5", "saved"} => WellFormedInputs)
    /\ [](pc = "returned" => files.error # "" /\ final_df = <<>>)
    /\ [][pc' # "saved" => ledger_file' = ledger_file /\ ledger_saved' = ledger_saved]_vars

\* C30 witness: a ledger exists, and a run that loaded it and a matching
\* file has ended at a feed file without source column.
C30_Witness ==
    /\ pc = "returned"
    /\ files.error = "feed"
    /\ "src" \notin files.feed
    /\ loaded_df # <<>>
    /\ ledger_file # <<>>

-----------------------------------------------------------------------------
(* Part IV: further properties of the batch and of find_best_match         *)

\* A column of the loaded master df was not in its file: load_data has
\* filled it with pd.NA in every row.
LacksColumn(df) ==
    /\ df # <<>>
    /\ \E c \in {"maker", "brand", "type", "weight", "name", "jan"} :
          \A r \in Range(df) : r[c] = PdNA

StructuralFailure ==
    old_input = <<>> \/ LacksColumn(old_input) \/ LacksColumn(new_input)

\* C24: when the OLD master is empty or a master lacks a required column,
\* process_master_data raises: no record gets a result, nothing is joined
\* and no report is written.
C24_StructuralFailureRaises ==
    StructuralFailure =>
        /\ results = <<>>
        /\ final_join = <<>>
        /\ pc \notin {"joined", "done"}

\* No OLD record of the cleansed master carries the brand code of n.
BrandMiss(n) == \A i \in 1..Len(df_old) : ~SameBrand(n, df_old[i])

\* No OLD record of the cleansed master carries the (maker, type) pair of n.
MakerTypeMiss(n) == \A i \in 1..Len(df_old) : ~SameMakerType(n, df_old[i])

\* The tier find_best_match looks up for the NEW record n finds no key.
TierMiss(n) ==
    \/ Present(n.brand) /\ BrandMiss(n)
    \/ ~Present(n.brand) /\ Present(n.maker) /\ Present(n.type) /\ MakerTypeMiss(n)

\* The names the candidate sheet gives to the two brand patterns and to the
\* two maker + type patterns.
BrandPatterns == {"brand+weight", "brand-only"}
MakerTypePatterns == {"maker+type+weight", "maker+type-only"}

\* C25: a lookup whose key no OLD record carries yields the empty candidate
\* set and raises nothing.  In find_best_match the record gets the
\* mismatch result of its tier, and no exception leaves the function for
\* such a record; in create_candidate_sheet_data a pattern whose key is
\* missing contributes no row, the record has no rows when every pattern
\* misses, and the only exception of the sheet is the IndexError of
\* results[idx].
C25_LookupMissIsEmpty ==
    /\ \A k \in 1..Len(results) :
          LET n == df_new[k].row
          IN /\ (Present(n.brand) /\ BrandMiss(n))
                    => results[k] = NoCandidate("no-candidate:brand-mismatch", "")
             /\ (~Present(n.brand) /\ Present(n.maker) /\ Present(n.type)
                    /\ MakerTypeMiss(n))
                    => results[k] = NoCandidate("no-candidate:maker+type-mismatch", "")
    /\ (pc \in {"loop", "aborted"} /\ new_row # NoRow /\ TierMiss(new_row))
          => (looked_up = <<>> /\ result.raised = "")
    /\ SheetStepTaken =>
          /\ pc = "aborted" => \E x \in Range(df_new) : x.idx + 1 > Len(results)
          /\ \A x \in Range(df_new) :
                LET sel == select_pattern(x.row, df_old_processed)
                    listed == SheetRowsOf(x.idx)
                IN /\ BrandMiss(x.row) => sel.pattern \notin BrandPatterns
                   /\ MakerTypeMiss(x.row) => sel.pattern \notin MakerTypePatterns
                   /\ (BrandMiss(x.row) /\ MakerTypeMiss(x.row)) => sel.rows = <<>>
                   /\ \A j \in 1..Len(listed) :
                         /\ BrandMiss(x.row) => listed[j].pattern \notin BrandPatterns
                         /\ MakerTypeMiss(x.row)
                               => listed[j].pattern \notin MakerTypePatterns

\* The batch is over: one record met a brand lookup that found nothing and
\* got the mismatch result, and the sheet was built for a record whose
\* brand code no OLD record carries while the result consulted for it has
\* a winner, so that the sheet's own brand lookups missed.
C25_Witness ==
    /\ SheetStepTaken
    /\ \E k \in 1..Len(results) :
          /\ Present(df_new[k].row.brand) /\ BrandMiss(df_new[k].row)
          /\ results[k].outcome = "no-candidate:brand-mismatch"
    /\ \E x \in Range(df_new) :
          /\ x.idx + 1 <= Len(results)
          /\ results[x.idx + 1].has
          /\ Present(x.row.brand) /\ BrandMiss(x.row)
          /\ select_pattern(x.row, df_old_processed).pattern \in MakerTypePatterns

\* The OLD master as the cleansing left it, and its preprocessed frame.
CleansedOld == clean_initial_data(old_input)
ProcessedOld == preprocess_old_data(CleansedOld)

\* The matching loop or the sheet step is at work.
Matching == pc \in {"loop", "joined"}

\* C26: matching and the construction of the candidate sheet are read-only
\* on shared data.  No pass of the loop and no sheet step changes the OLD
\* master, its preprocessed frame (which stands for both indexes) or a
\* result produced before; every result is the one find_best_match gives
\* for its own record against the OLD master as loaded, whatever records
\* were processed before it, and the sheet is the one computed from that
\* master and the results.
C26_MatchingIsReadOnly ==
    /\ [](pc \in {"loop", "joined", "done", "aborted"} =>
            /\ df_old = CleansedOld
            /\ df_old_processed = ProcessedOld
            /\ \A k \in 1..Len(results) :
                  results[k] = find_best_match(df_new[k].row, ProcessedOld, CleansedOld).result
            /\ pc = "done" =>
                  candidates_list =
                      create_candidate_sheet_data(df_new, ProcessedOld, results).list)
    /\ [][Matching =>
            /\ df_old' = df_old
            /\ df_old_processed' = df_old_processed
            /\ Len(results') >= Len(results)
            /\ SubSeq(results', 1, Len(results)) = results
            /\ pc = "joined" => results' = results]_vars

\* Two records were matched one after the other against the same OLD rows,
\* both with a winner, and the sheet was built from them.
C26_Witness ==
    /\ pc = "done"
    /\ Len(results) >= 2
    /\ results[1].has /\ results[2].has
    /\ results[1].old = results[2].old
    /\ df_new[1].row # df_new[2].row
    /\ Len(candidates_list) >= 2
    /\ Len(df_old_processed) = MaxOld

\* C27: the OLD attributes reported for the winner are those of an OLD
\* record whose preprocessed row passed the tier lookup and the weight
\* filter for the NEW record, also when several OLD records share the
\* winner's JAN code.
C27_ReportedRecordPassedFilters ==
    (pc = "matched" /\ result.has) =>
        \E i \in 1..Len(df_old) :
            /\ df_old[i] = result.old
            /\ df_old_processed[i] \in Range(matching_old)

\* C28: for every NEW record with a winning match the candidate sheet agrees
\* with the matcher: the first row listed for the record names the winner's
\* JAN code with the winner's score, and the pattern of the list is the
\* pattern recorded in the result.
C28_SheetAgreesWithMatcher ==
    pc = "done" =>
        \A k \in 1..Len(results) :
            results[k].has =>
                LET listed == SheetRowsOf(df_new[k].idx)
                IN /\ listed # <<>>
                   /\ listed[1].old_jan = results[k].old.jan
                   /\ listed[1].score = results[k].score
                   /\ \A j \in 1..Len(listed) : listed[j].pattern = results[k].pattern

\* The rows that reached the ranking are the rows of the lookup whose
\* weight lies in the window of the NEW weight: the weight filter was
\* applied.
WeightFilterApplied ==
    matching_old = SelectSeq(looked_up, LAMBDA r : InWindowOf(r, new_row.weight))

\* C29: a result with a winning match carries the skip reason
\* 'weight-skipped' exactly when the weight filter was not applied to its
\* candidates, and its pattern is a '+weight' pattern exactly when the
\* filter was applied, whatever the NEW weight is: absent, zero, negative
\* or not a number.
C29_SkipReasonTellsFilter ==
    (pc = "matched" /\ result.has) =>
        /\ (result.skip = "weight-skipped") <=> ~WeightFilterApplied
        /\ (result.pattern \in {"brand+weight", "maker+type+weight"}) <=> WeightFilterApplied

====
